---- MODULE Spec2Model ----
(***************************************************************************)
(* Book-Alchemy: a Flask application over two SQLite tables, authors and   *)
(* books (src/app.py, src/data/models.py).                                 *)
(*                                                                         *)
(* Text is modelled as a sequence of characters, each character a          *)
(* one-token string ("a", "-", " "); the token "sup2" stands for U+00B2    *)
(* SUPERSCRIPT TWO, a character for which Python's str.isdigit() is true   *)
(* and which is not a decimal digit.  A nullable column or an optional     *)
(* Python value is None (the empty tuple) or Some(x) (the tuple <<x>>).    *)
(* A calendar date is <<year, month, day>>.                                *)
(***************************************************************************)
EXTENDS Integers, Sequences, FiniteSets, TLC

None == << >>
Some(x) == << x >>

(***************************************************************************)
(* Characters and Python's string predicates                               *)
(***************************************************************************)
DecimalDigits == {"0", "1", "2", "3", "4", "5", "6", "7", "8", "9"}

DigitVal(c) ==
    CASE c = "0" -> 0 [] c = "1" -> 1 [] c = "2" -> 2 [] c = "3" -> 3
      [] c = "4" -> 4 [] c = "5" -> 5 [] c = "6" -> 6 [] c = "7" -> 7
      [] c = "8" -> 8 [] c = "9" -> 9

\* str.isspace() for the characters used
IsSpace(c) == c = " "

\* str.isdigit(): decimal digits and the compatibility digits (superscripts)
IsDigit(c) == c \in DecimalDigits \cup {"sup2"}

\* str.lower() on one character (ASCII letters of the alphabet used)
Lower(c) ==
    CASE c = "A" -> "a" [] c = "B" -> "b" [] c = "X" -> "x" [] OTHER -> c

\* Unicode code point, the order of SQLite's BINARY collation
CharCode(c) ==
    CASE c = " " -> 32 [] c = "%" -> 37 [] c = "A" -> 65 [] c = "B" -> 66
      [] c = "_" -> 95 [] c = "a" -> 97 [] c = "b" -> 98 [] OTHER -> 0

RECURSIVE LStrip(_)
LStrip(s) == IF s # << >> /\ IsSpace(Head(s)) THEN LStrip(Tail(s)) ELSE s

RECURSIVE RStrip(_)
RStrip(s) ==
    IF s # << >> /\ IsSpace(s[Len(s)]) THEN RStrip(SubSeq(s, 1, Len(s) - 1)) ELSE s

\* str.strip()
Strip(s) == RStrip(LStrip(s))

(***************************************************************************)
(* int(text): surrounding whitespace, an optional sign, decimal digits     *)
(* with single underscores between them.  Err(kind) is a raised ValueError *)
(***************************************************************************)
Ok(v) == [ok |-> TRUE, val |-> v]
Err(e) == [ok |-> FALSE, err |-> e]

RECURSIVE DigitsValue(_, _)
DigitsValue(s, acc) ==
    IF s = << >> THEN acc
    ELSE IF Head(s) = "_" THEN DigitsValue(Tail(s), acc)
         ELSE DigitsValue(Tail(s), 10 * acc + DigitVal(Head(s)))

IsIntBody(b) ==
    /\ b # << >>
    /\ \A i \in 1..Len(b) : b[i] \in DecimalDigits \cup {"_"}
    /\ b[1] # "_" /\ b[Len(b)] # "_"
    /\ \A i \in 1..(Len(b) - 1) : ~(b[i] = "_" /\ b[i + 1] = "_")

ParseInt(text) ==
    LET t == Strip(text)
        signed == t # << >> /\ Head(t) \in {"+", "-"}
        body == IF signed THEN Tail(t) ELSE t
    IN IF IsIntBody(body)
       THEN Ok(IF signed /\ Head(t) = "-" THEN 0 - DigitsValue(body, 0)
               ELSE DigitsValue(body, 0))
       ELSE Err("invalid literal for int()")

(***************************************************************************)
(* ISBN: normalize_isbn, format_isbn, validate_isbn (src/app.py 24-38,     *)
(* 69-81).  A raised ValueError is Err([kind, arg]); arg carries the       *)
(* number the message names.                                               *)
(***************************************************************************)
Failure(kind, arg) == Err([kind |-> kind, arg |-> arg])

\* the generator's test: c.isdigit() or c.lower() == 'x'
IsbnChar(c) == IsDigit(c) \/ Lower(c) = "x"

normalize_isbn_keeps_separators(isbn) ==
    IF isbn = << >> THEN None ELSE Some(isbn)
normalize_isbn(isbn) ==
    IF isbn = << >> THEN None ELSE Some(SelectSeq(isbn, IsbnChar))

format_isbn(isbn) ==
    IF isbn = None \/ isbn = Some(<< >>) THEN << >>
    ELSE LET n == isbn[1] IN
         IF Len(n) = 13
         THEN SubSeq(n, 1, 3) \o <<"-">> \o SubSeq(n, 4, 4) \o <<"-">>
              \o SubSeq(n, 5, 7) \o <<"-">> \o SubSeq(n, 8, 12) \o <<"-">>
              \o SubSeq(n, 13, 13)
         ELSE IF Len(n) = 10
         THEN SubSeq(n, 1, 1) \o <<"-">> \o SubSeq(n, 2, 4) \o <<"-">>
              \o SubSeq(n, 5, 9) \o <<"-">> \o SubSeq(n, 10, 10)
         ELSE n

IsbnLengths == {10, 13}

validate_isbn(isbn) ==
    IF isbn = << >> THEN Ok(None)
    ELSE LET cleaned_isbn == normalize_isbn(isbn)[1] IN
         IF Len(cleaned_isbn) \notin IsbnLengths
         THEN Failure("isbn_length", Len(cleaned_isbn))
         ELSE Ok(Some(cleaned_isbn))

(***************************************************************************)
(* validate_year (src/app.py 83-97)                                        *)
(***************************************************************************)
MinYear == 1450

YearTooLateStrict(year, current_year) == year >= current_year + 1
YearTooLate(year, current_year) == year > current_year + 1

validate_year(year, current_year) ==
    LET n == ParseInt(year) IN
    IF ~n.ok
    THEN \* int() raised; its message does not start with 'Das Jahr muss'
         Failure("year_not_a_number", 0)
    ELSE IF n.val < MinYear \/ YearTooLate(n.val, current_year)
         THEN \* re-raised unchanged by the handler at lines 95-96
              Failure("year_out_of_range", current_year + 1)
         ELSE Ok(Some(n.val))

(***************************************************************************)
(* Dates: datetime, strptime and validate_date (src/app.py 40-67)          *)
(***************************************************************************)
IsLeap(y) == (y % 4 = 0 /\ y % 100 # 0) \/ y % 400 = 0

DaysInMonth(y, m) ==
    IF m = 2 THEN (IF IsLeap(y) THEN 29 ELSE 28)
    ELSE IF m \in {4, 6, 9, 11} THEN 30 ELSE 31

\* datetime(y, m, d): a ValueError outside the calendar
datetime(y, m, d) ==
    IF y >= 1 /\ y <= 9999 /\ m >= 1 /\ m <= 12
       /\ d >= 1 /\ d <= DaysInMonth(y, m)
    THEN Ok(<<y, m, d>>)
    ELSE Failure("datetime", 0)

DateLT(a, b) ==
    \/ a[1] < b[1]
    \/ a[1] = b[1] /\ a[2] < b[2]
    \/ a[1] = b[1] /\ a[2] = b[2] /\ a[3] < b[3]

NextDay(t) ==
    IF t[3] < DaysInMonth(t[1], t[2]) THEN <<t[1], t[2], t[3] + 1>>
    ELSE IF t[2] < 12 THEN <<t[1], t[2] + 1, 1>>
    ELSE <<t[1] + 1, 1, 1>>

\* the pieces of s between occurrences of sep
RECURSIVE Split(_, _, _)
Split(s, sep, cur) ==
    IF s = << >> THEN << cur >>
    ELSE IF Head(s) = sep THEN << cur >> \o Split(Tail(s), sep, << >>)
         ELSE Split(Tail(s), sep, Append(cur, Head(s)))

AllDecimal(s) == \A i \in 1..Len(s) : s[i] \in DecimalDigits

\* a %m or %d field: one or two digits
IsShortField(s) == Len(s) \in {1, 2} /\ AllDecimal(s)
\* a %Y field: exactly four digits
IsYearField(s) == Len(s) = 4 /\ AllDecimal(s)

\* datetime.strptime(s, "%Y-%m-%d")
strptime_ymd(s) ==
    LET p == Split(s, "-", << >>) IN
    IF Len(p) = 3 /\ IsYearField(p[1]) /\ IsShortField(p[2]) /\ IsShortField(p[3])
    THEN datetime(DigitsValue(p[1], 0), DigitsValue(p[2], 0), DigitsValue(p[3], 0))
    ELSE Failure("strptime", 0)

\* datetime.strptime(s, "%d.%m.%Y")
strptime_dmy(s) ==
    LET p == Split(s, ".", << >>) IN
    IF Len(p) = 3 /\ IsShortField(p[1]) /\ IsShortField(p[2]) /\ IsYearField(p[3])
    THEN datetime(DigitsValue(p[3], 0), DigitsValue(p[2], 0), DigitsValue(p[1], 0))
    ELSE Failure("strptime", 0)

\* the "%Y" pass of the loop: datetime(int(s), 1, 1) for four characters,
\* strptime(s, "%Y") otherwise (four digits exactly, so never of another length)
year_only(s) ==
    IF Len(s) = 4
    THEN LET n == ParseInt(s) IN
         IF n.ok THEN datetime(n.val, 1, 1) ELSE Failure("int", 0)
    ELSE Failure("strptime", 0)

validate_date(date_str) ==
    IF date_str = << >> \/ Strip(date_str) = << >> THEN Ok(None)
    ELSE LET s == Strip(date_str)
             ymd == strptime_ymd(s)
             dmy == strptime_dmy(s)
             y == year_only(s)
         IN IF ymd.ok THEN Ok(Some(ymd.val))
            ELSE IF dmy.ok THEN Ok(Some(dmy.val))
            ELSE IF y.ok THEN Ok(Some(y.val))
            ELSE Failure("date_format", 0)

(***************************************************************************)
(* The store (src/data/models.py): two tables, rows as records.            *)
(*   authors: id, name, birth_date, date_of_death                          *)
(*   books:   id, isbn, title, publication_year, author_id                 *)
(* now is the date of datetime.now(); last is the response to the latest   *)
(* request: the handler, the flashed outcome and the number the message    *)
(* carries (the length found, the last year allowed, the length of the     *)
(* ISBN as shown, the number of rows listed, the year returned).           *)
(* yearArg is the argument of a direct validate_year call.                 *)
(***************************************************************************)
VARIABLES authors, books, now, last, yearArg

vars == <<authors, books, now, last, yearArg>>

Response(op, kind, arg) == [op |-> op, kind |-> kind, arg |-> arg]

Ids(rows) == {r.id : r \in rows}

\* INTEGER PRIMARY KEY without AUTOINCREMENT: the largest rowid plus one
NextId(rows) ==
    IF rows = {} THEN 1
    ELSE (CHOOSE i \in Ids(rows) : \A j \in Ids(rows) : j <= i) + 1

\* SQLite enforces FOREIGN KEY clauses only under PRAGMA foreign_keys = ON,
\* which the application never issues
ForeignKeysEnforced == FALSE

\* Book.query.filter_by(isbn=isbn): "isbn IS NULL" for None, "isbn = ?" otherwise
filter_by_isbn(rows, isbn) ==
    IF isbn = None THEN {b \in rows : b.isbn = None}
    ELSE {b \in rows : b.isbn # None /\ b.isbn = isbn}

\* the constraints the books table checks at commit: UNIQUE(isbn), with NULLs
\* distinct from one another, and the foreign key when it is enforced
BookConstraintsHold(new_book) ==
    /\ new_book.isbn # None => \A b \in books : b.isbn # new_book.isbn
    /\ ForeignKeysEnforced => new_book.author_id \in Ids(authors)

(***************************************************************************)
(* Bounds of the model                                                     *)
(***************************************************************************)
MaxAuthors == 1
MaxBookId == 2
MaxTicks == 1
MaxYearLen == 4

StartDay == <<2019, 12, 31>>

RECURSIVE Clock(_)
Clock(k) == IF k = 0 THEN StartDay ELSE NextDay(Clock(k - 1))

(***************************************************************************)
(* add_author (src/app.py 118-166), POST.  fault: db.session.commit()      *)
(* raises.                                                                 *)
(***************************************************************************)
DeathBeforeBirthOrEqual(birth_date, date_of_death) ==
    birth_date # None /\ date_of_death # None
    /\ ~DateLT(birth_date[1], date_of_death[1])
DeathBeforeBirth(birth_date, date_of_death) ==
    birth_date # None /\ date_of_death # None
    /\ DateLT(date_of_death[1], birth_date[1])

InFuture(date, today) == date # None /\ DateLT(today, date[1])

\* the response and the authors table after the request
add_author(name_field, birth_date_str, death_date_str, fault) ==
    LET name == Strip(name_field)
        birth == IF birth_date_str # << >> THEN validate_date(birth_date_str)
                 ELSE Ok(None)
        death == IF death_date_str # << >> THEN validate_date(death_date_str)
                 ELSE Ok(None)
        new_author == [id |-> NextId(authors), name |-> name,
                       birth_date |-> birth.val, date_of_death |-> death.val]
        Reject(kind) == [kind |-> kind, arg |-> 0, rows |-> authors]
    IN IF name = << >> THEN Reject("name_empty")
       ELSE IF ~birth.ok THEN Reject(birth.err.kind)
       ELSE IF ~death.ok THEN Reject(death.err.kind)
       ELSE IF DeathBeforeBirth(birth.val, death.val) THEN Reject("death_before_birth")
       ELSE IF InFuture(birth.val, now) THEN Reject("birth_in_future")
       ELSE IF InFuture(death.val, now) THEN Reject("death_in_future")
       ELSE IF fault THEN Reject("persistence_error")
       ELSE [kind |-> "success", arg |-> 0, rows |-> authors \cup {new_author}]

AddAuthor(name_field, birth_date_str, death_date_str, fault) ==
    LET r == add_author(name_field, birth_date_str, death_date_str, fault) IN
    /\ r.kind = "success" => Cardinality(authors) < MaxAuthors
    /\ authors' = r.rows
    /\ last' = Response("add_author", r.kind, r.arg)
    /\ UNCHANGED <<books, now, yearArg>>

(***************************************************************************)
(* add_book (src/app.py 168-213), POST                                     *)
(***************************************************************************)
add_book_without_rollback(isbn_field, year_field, title_field, author_id_field, fault) ==
    LET isbn == validate_isbn(isbn_field)
        publication_year == validate_year(year_field, now[1])
        title == Strip(title_field)
        existing_book == filter_by_isbn(books, isbn.val)
        author_id == ParseInt(author_id_field)
        new_book == [id |-> NextId(books), isbn |-> isbn.val, title |-> title,
                     publication_year |-> publication_year.val,
                     author_id |-> author_id.val]
        Reject(kind, arg) == [kind |-> kind, arg |-> arg, rows |-> books]
    IN IF ~isbn.ok THEN Reject(isbn.err.kind, isbn.err.arg)
       ELSE IF ~publication_year.ok
            THEN Reject(publication_year.err.kind, publication_year.err.arg)
       ELSE IF title = << >> THEN Reject("title_empty", 0)
       ELSE IF existing_book # {}
            THEN Reject("duplicate_isbn", Len(format_isbn(isbn.val)))
       ELSE IF ~author_id.ok THEN Reject("author_id_not_a_number", 0)
       ELSE IF fault \/ ~BookConstraintsHold(new_book)
            THEN [kind |-> "persistence_error", arg |-> 0,
                  rows |-> books \cup {new_book}]
       ELSE [kind |-> "success", arg |-> 0, rows |-> books \cup {new_book}]

add_book(isbn_field, year_field, title_field, author_id_field, fault) ==
    LET isbn == validate_isbn(isbn_field)
        publication_year == validate_year(year_field, now[1])
        title == Strip(title_field)
        existing_book == filter_by_isbn(books, isbn.val)
        author_id == ParseInt(author_id_field)
        new_book == [id |-> NextId(books), isbn |-> isbn.val, title |-> title,
                     publication_year |-> publication_year.val,
                     author_id |-> author_id.val]
        Reject(kind, arg) == [kind |-> kind, arg |-> arg, rows |-> books]
    IN IF ~isbn.ok THEN Reject(isbn.err.kind, isbn.err.arg)
       ELSE IF ~publication_year.ok
            THEN Reject(publication_year.err.kind, publication_year.err.arg)
       ELSE IF title = << >> THEN Reject("title_empty", 0)
       ELSE IF existing_book # {}
            THEN Reject("duplicate_isbn", Len(format_isbn(isbn.val)))
       ELSE IF ~author_id.ok THEN Reject("author_id_not_a_number", 0)
       ELSE IF fault \/ ~BookConstraintsHold(new_book)
            THEN Reject("persistence_error", 0)
       ELSE [kind |-> "success", arg |-> 0, rows |-> books \cup {new_book}]

AddBook(isbn_field, year_field, title_field, author_id_field, fault) ==
    LET r == add_book(isbn_field, year_field, title_field, author_id_field, fault) IN
    /\ r.kind = "success" => NextId(books) <= MaxBookId
    /\ books' = r.rows
    /\ last' = Response("add_book", r.kind, r.arg)
    /\ UNCHANGED <<authors, now, yearArg>>

(***************************************************************************)
(* delete_book (src/app.py 215-222).  A commit that raises is not caught:  *)
(* the request ends in a server error and the session is discarded.        *)
(***************************************************************************)
delete_book_cascades(book_id, fault) ==
    IF book_id \notin Ids(books) THEN [kind |-> "not_found", rows |-> books]
    ELSE [kind |-> "deleted",
          rows |-> {b \in books : b.author_id #
                       (CHOOSE d \in books : d.id = book_id).author_id}]
delete_book(book_id, fault) ==
    IF book_id \notin Ids(books) THEN [kind |-> "not_found", rows |-> books]
    ELSE IF fault THEN [kind |-> "server_error", rows |-> books]
    ELSE [kind |-> "deleted", rows |-> {b \in books : b.id # book_id}]

DeleteBook(book_id, fault) ==
    LET r == delete_book(book_id, fault) IN
    /\ books' = r.rows
    /\ last' = Response("delete_book", r.kind, 0)
    /\ UNCHANGED <<authors, now, yearArg>>

(***************************************************************************)
(* home (src/app.py 99-116): the rows the listing can return               *)
(***************************************************************************)
LowerSeq(s) == [i \in 1..Len(s) |-> Lower(s[i])]

\* SQLite's LIKE: % matches any run of characters, _ any one character
RECURSIVE Like(_, _)
Like(text, pattern) ==
    IF pattern = << >> THEN text = << >>
    ELSE IF Head(pattern) = "%"
         THEN Like(text, Tail(pattern))
              \/ (text # << >> /\ Like(Tail(text), pattern))
    ELSE IF Head(pattern) = "_"
         THEN text # << >> /\ Like(Tail(text), Tail(pattern))
    ELSE text # << >> /\ Head(text) = Head(pattern)
         /\ Like(Tail(text), Tail(pattern))

\* column.ilike(pattern) on SQLite: lower(column) LIKE lower(pattern)
ilike(text, pattern) == Like(LowerSeq(text), LowerSeq(pattern))

\* a <= b in the BINARY collation
RECURSIVE TextLE(_, _)
TextLE(a, b) ==
    IF a = << >> THEN TRUE
    ELSE IF b = << >> THEN FALSE
    ELSE IF CharCode(Head(a)) # CharCode(Head(b))
         THEN CharCode(Head(a)) < CharCode(Head(b))
    ELSE TextLE(Tail(a), Tail(b))

\* every order of the rows
Orderings(rows) ==
    {f \in [1..Cardinality(rows) -> rows] :
        \A i, j \in 1..Cardinality(rows) : i # j => f[i] # f[j]}

AuthorOf(b) == CHOOSE a \in authors : a.id = b.author_id

home(search_query, sort_by) ==
    LET filtered ==
            IF search_query # << >>
            THEN {b \in books : ilike(b.title, <<"%">> \o search_query \o <<"%">>)}
            ELSE books
        joined == {b \in filtered : b.author_id \in Ids(authors)}
    IN IF sort_by = "title"
       THEN {f \in Orderings(filtered) :
                \A i \in 1..(Len(f) - 1) : TextLE(f[i].title, f[i + 1].title)}
       ELSE IF sort_by = "author"
       THEN {f \in Orderings(joined) :
                \A i \in 1..(Len(f) - 1) :
                    TextLE(AuthorOf(f[i]).name, AuthorOf(f[i + 1]).name)}
       ELSE \* no ORDER BY: the table scan, in rowid order
            {f \in Orderings(filtered) :
                \A i \in 1..(Len(f) - 1) : f[i].id < f[i + 1].id}

\* the request changes nothing; the response is the page with the rows
Home(search_query, sort_by) ==
    /\ last' = Response("home", "ok",
                        Len(CHOOSE f \in home(search_query, sort_by) : TRUE))
    /\ UNCHANGED <<authors, books, now, yearArg>>

(***************************************************************************)
(* A direct call validate_year(yearArg), and the passing of a day          *)
(***************************************************************************)
ValidateYear ==
    LET r == validate_year(yearArg, now[1]) IN
    /\ last.op = "none"
    /\ last' = IF r.ok THEN Response("validate_year", "ok", r.val[1])
               ELSE Response("validate_year", r.err.kind, r.err.arg)
    /\ UNCHANGED <<authors, books, now, yearArg>>

Tick ==
    /\ \E k \in 0..(MaxTicks - 1) : now = Clock(k)
    /\ now' = NextDay(now)
    /\ UNCHANGED <<authors, books, last, yearArg>>

(***************************************************************************)
(* Request inputs                                                          *)
(***************************************************************************)
Isbn13 == <<"9", "7", "8", "3", "1", "6", "1", "4", "8", "4", "1", "0", "0">>
Isbn10 == <<"0", "3", "0", "6", "4", "0", "6", "1", "5", "X">>
\* ten superscript twos
IsbnSuperscript == [i \in 1..10 |-> "sup2"]
\* "0 306 40615 X"
Isbn10Spaced ==
    <<"0", " ", "3", "0", "6", " ", "4", "0", "6", "1", "5", " ", "X">>

IsbnFields ==
    { << >>, Isbn13, format_isbn(Some(Isbn13)), Isbn10, format_isbn(Some(Isbn10)),
      Isbn10Spaced, IsbnSuperscript,
      SubSeq(Isbn10, 2, 10), Isbn13 \o <<"x">>, <<"-", "-">> }

YearFields == { << >>, <<"1", "4", "5", "0">>, <<"1", "4", "4", "9">> }
TitleFields == { << >>, <<"a">>, <<"B", " ">> }
AuthorIdFields == { << >>, <<"1">>, <<"2">> }
NameFields == { << >>, <<"a">>, <<" ", "b">> }

SearchTerms == { << >>, <<"A">>, <<"b">>, <<"_">>, <<"%">> }
SortKeys == { "", "title", "author" }

Yesterday == <<"3", "0", ".", "1", "2", ".", "2", "0", "1", "9">>
Today == <<"2", "0", "1", "9", "-", "1", "2", "-", "3", "1">>
NewYear == <<"2", "0", "2", "0">>
Slashed == <<"1", "9", "8", "9", "/", "1", "2", "/", "3", "1">>
DateFields == { << >>, Yesterday, Today, NewYear, Slashed }

YearAlphabet == {"0", "1", "2", "4", "5", "9", "-", " ", "a"}
YearTexts == UNION {[1..n -> YearAlphabet] : n \in 0..MaxYearLen}

\* the forms posted to /add_author: <<name, birth_date, date_of_death>>
AuthorFormsNoDates == {<<n, << >>, << >> >> : n \in NameFields}

\* the forms posted to /add_book: <<isbn, publication_year, title, author_id>>;
\* every ISBN with the other fields valid, and every combination of the other
\* fields with the ISBN left empty or valid
BookForms ==
    {<<i, <<"1", "4", "5", "0">>, <<"a">>, <<"1">> >> : i \in IsbnFields}
    \cup {<<i, y, t, a>> : i \in {<< >>}, y \in YearFields, t \in TitleFields,
                           a \in AuthorIdFields}
    \cup {<<Isbn10, y, <<"a">>, <<"1">> >> : y \in YearFields}

Requests(author_forms, book_forms, faults) ==
    \/ \E form \in author_forms, f \in faults :
          AddAuthor(form[1], form[2], form[3], f)
    \/ \E form \in book_forms, f \in faults :
          AddBook(form[1], form[2], form[3], form[4], f)
    \/ \E id \in 0..(MaxBookId + 1), f \in faults : DeleteBook(id, f)
    \/ \E q \in SearchTerms, k \in SortKeys : Home(q, k)

(***************************************************************************)
(* Specifications                                                          *)
(***************************************************************************)
Init ==
    /\ authors = {}
    /\ books = {}
    /\ now = StartDay
    /\ last = Response("none", "none", 0)
    /\ yearArg = << >>

\* requests against a storage that commits
Next == Requests(AuthorFormsNoDates, BookForms, {FALSE})

Spec == Init /\ [][Next]_vars

\* requests against a storage whose commits may raise, with forms that reach
\* every validation failure
AuthorFormsFault ==
    {<<n, b, d>> : n \in {<< >>, <<"a">>}, b \in {<< >>, Today, NewYear, Slashed},
                   d \in {<< >>, Today, NewYear, Slashed}}

BookFormsFault ==
    {<<i, y, t, a>> : i \in {<< >>, Isbn10, format_isbn(Some(Isbn10)),
                             SubSeq(Isbn10, 2, 10)},
                      y \in YearFields, t \in {<< >>, <<"a">>},
                      a \in {<< >>, <<"1">>}}

NextFault == Requests(AuthorFormsFault, BookFormsFault, BOOLEAN)

SpecFault == Init /\ [][NextFault]_vars

\* authors with every form of date, as the days pass
AuthorFormsDates ==
    {<<n, b, d>> : n \in {<<"a">>}, b \in DateFields, d \in DateFields}
    \cup {<< << >>, Today, Today >>, << <<"a">>, <<" ">>, Today >>}

OneBookForm == {<< << >>, <<"1", "4", "5", "0">>, <<"a">>, <<"1">> >>}

NextAuthor == Requests(AuthorFormsDates, OneBookForm, {FALSE}) \/ Tick

SpecAuthor == Init /\ [][NextAuthor]_vars

\* validate_year called once on any short text, on any day
InitYear ==
    /\ authors = {}
    /\ books = {}
    /\ now \in {Clock(k) : k \in 0..MaxTicks}
    /\ last = Response("none", "none", 0)
    /\ yearArg \in YearTexts

NextYear == ValidateYear

SpecYear == InitYear /\ [][NextYear]_vars

(***************************************************************************)
(* Properties                                                              *)
(***************************************************************************)
\* an ISBN with its separators (hyphens, spaces) removed
IsSeparator(c) == c \in {"-", " "}
NotSeparator(c) == ~IsSeparator(c)
WithoutSeparators(text) == SelectSeq(text, NotSeparator)

ErrorKinds ==
    {"name_empty", "title_empty", "date_format", "isbn_length",
     "year_not_a_number", "year_out_of_range", "death_before_birth",
     "birth_in_future", "death_in_future", "duplicate_isbn",
     "author_id_not_a_number", "persistence_error"}

\* C1: no two stored books carry the same ISBN, and an add-book whose ISBN,
\* separators removed, is the ISBN of a stored book is rejected and stores
\* nothing, however either was hyphenated (stated as: a step that is not a
\* rejection leaving the table as it was is no add-book of such an ISBN).
C1_IsbnUnique ==
    [][ /\ \A b1, b2 \in books' :
              (b1 # b2 /\ b1.isbn # None) => b1.isbn # b2.isbn
        /\ ~(books' = books /\ last'.kind \in ErrorKinds) =>
              ~\E form \in BookForms :
                  /\ last'.op = "add_book"
                  /\ WithoutSeparators(form[1]) # << >>
                  /\ \E b \in books : b.isbn = Some(WithoutSeparators(form[1]))
                  /\ AddBook(form[1], form[2], form[3], form[4], FALSE)
      ]_vars

\* a differently hyphenated duplicate of a stored ISBN has just been refused
C1_Witness ==
    /\ last.op = "add_book" /\ last.kind = "duplicate_isbn" /\ last.arg = 13
    /\ \E b \in books : b.isbn = Some(Isbn10)
    /\ Cardinality(books) = 1

\* C2: every stored book's author_id is the id of a stored author.
C2_BooksReferenceStoredAuthors ==
    \A b \in books : b.author_id \in Ids(authors)

\* the text denotes a year validate_year accepts today
IsValidYearField(text) ==
    ParseInt(text).ok /\ ParseInt(text).val >= MinYear
    /\ ParseInt(text).val <= now[1] + 1

NamesStoredAuthor(text) ==
    ParseInt(text).ok /\ ParseInt(text).val \in Ids(authors)

\* the request stored exactly one new book, with this ISBN and year
StoredNewBook(isbn, year) ==
    /\ last'.kind = "success"
    /\ \E b \in books' \ books :
          books' = books \cup {b} /\ b.isbn = isbn /\ b.publication_year = year

\* C3: an add-book with an empty ISBN, a non-empty title, a valid year and an
\* existing author is stored as a book without ISBN, however many books
\* without ISBN are stored already.
C3_EmptyIsbnIsStored ==
    [][ \A form \in BookForms :
          ( /\ form[1] = << >>
            /\ Strip(form[3]) # << >>
            /\ IsValidYearField(form[2])
            /\ NamesStoredAuthor(form[4])
            /\ AddBook(form[1], form[2], form[3], form[4], FALSE) )
          => StoredNewBook(None, Some(ParseInt(form[2]).val))
      ]_vars

\* C4: an add-book with an empty publication_year and otherwise valid input
\* (ISBN empty, or valid and not stored yet; non-empty title; existing
\* author) is stored as a book without publication year.
C4_EmptyYearIsStored ==
    [][ \A form \in BookForms :
          ( /\ form[2] = << >>
            /\ \/ form[1] = << >>
               \/ /\ Len(WithoutSeparators(form[1])) \in {10, 13}
                  /\ \A b \in books : b.isbn # Some(WithoutSeparators(form[1]))
            /\ Strip(form[3]) # << >>
            /\ NamesStoredAuthor(form[4])
            /\ AddBook(form[1], form[2], form[3], form[4], FALSE) )
          => StoredNewBook(IF form[1] = << >> THEN None
                           ELSE Some(WithoutSeparators(form[1])), None)
      ]_vars

\* C5: validate_year returns y exactly when the text denotes an integer y with
\* 1450 <= y <= current_year + 1; an integer outside the range fails with the
\* error that states the range 1450..current_year + 1; a text that denotes no
\* integer fails with the 'must be a valid number' error.
C5_YearRange ==
    last.op = "validate_year" =>
        LET n == ParseInt(yearArg)
            current_year == now[1]
        IN /\ last.kind = "ok" <=>
                  (n.ok /\ 1450 <= n.val /\ n.val <= current_year + 1)
           /\ last.kind = "ok" => last.arg = n.val
           /\ (n.ok /\ (n.val < 1450 \/ n.val > current_year + 1)) =>
                  (last.kind = "year_out_of_range" /\ last.arg = current_year + 1)
           /\ ~n.ok => last.kind = "year_not_a_number"
           /\ yearArg = <<"1", "4", "4", "9">> => last.kind = "year_out_of_range"
           /\ yearArg = <<"1", "4", "5", "0">> => last.kind = "ok"
           /\ yearArg = <<"a">> => last.kind = "year_not_a_number"

\* the last year allowed, current_year + 1, has been accepted
C5_Witness ==
    /\ last.op = "validate_year" /\ last.kind = "ok"
    /\ last.arg = now[1] + 1
    /\ ParseInt(yearArg) = Ok(now[1] + 1)

\* the dates the date fields used denote; None for a field that holds no date
DateMeaning(text) ==
    IF text = Yesterday THEN Some(<<2019, 12, 30>>)
    ELSE IF text = Today THEN Some(<<2019, 12, 31>>)
    ELSE IF text = NewYear THEN Some(<<2020, 1, 1>>)
    ELSE None

\* the forms whose death date is strictly earlier than the birth date
DeathFirstForms ==
    {form \in AuthorFormsDates :
        /\ DateMeaning(form[2]) # None /\ DateMeaning(form[3]) # None
        /\ DateLT(DateMeaning(form[3])[1], DateMeaning(form[2])[1])}

\* the forms with a name and the same date of birth and of death
EqualDatesForms ==
    {form \in AuthorFormsDates :
        /\ Strip(form[1]) # << >>
        /\ DateMeaning(form[2]) # None
        /\ DateMeaning(form[3]) = DateMeaning(form[2])}

\* C6: every stored author has date_of_death >= birth_date when both are
\* present and no date later than the day of the request; an add-author with
\* death before birth is rejected and stores nothing; one with equal dates not
\* in the future and a non-empty name is stored.
C6_AuthorDates ==
    [][ /\ \A a \in authors' :
              /\ (a.birth_date # None /\ a.date_of_death # None) =>
                     ~DateLT(a.date_of_death[1], a.birth_date[1])
              /\ a.birth_date # None => ~DateLT(now', a.birth_date[1])
              /\ a.date_of_death # None => ~DateLT(now', a.date_of_death[1])
        /\ ~(authors' = authors /\ last'.kind \in ErrorKinds) =>
              ~\E form \in DeathFirstForms :
                  /\ last'.op = "add_author"
                  /\ AddAuthor(form[1], form[2], form[3], FALSE)
        /\ \A form \in EqualDatesForms :
              ( /\ last'.op = "add_author"
                /\ ~DateLT(now, DateMeaning(form[2])[1])
                /\ AddAuthor(form[1], form[2], form[3], FALSE) )
              => /\ last'.kind = "success"
                 /\ \E a \in authors' \ authors :
                       /\ authors' = authors \cup {a}
                       /\ a.birth_date = DateMeaning(form[2])
                       /\ a.date_of_death = DateMeaning(form[2])
      ]_vars

\* an author born and dead on the day of the request has just been stored
C6_Witness ==
    /\ last.op = "add_author" /\ last.kind = "success"
    /\ \E a \in authors :
          a.birth_date = Some(now) /\ a.date_of_death = Some(now)

\* C7: delete-book of a stored id removes that book alone, leaving every
\* author and every other book; of an id not stored it answers not-found and
\* changes nothing.
C7_DeleteFrame ==
    [][ \A id \in 0..(MaxBookId + 1) :
          (last'.op = "delete_book" /\ DeleteBook(id, FALSE)) =>
              /\ authors' = authors
              /\ IF \E b \in books : b.id = id
                 THEN /\ last'.kind = "deleted"
                      /\ books' = {b \in books : b.id # id}
                      /\ Cardinality(books') = Cardinality(books) - 1
                 ELSE /\ last'.kind = "not_found"
                      /\ books' = books
      ]_vars

\* a book has just been deleted while an author and a later book stay
C7_Witness ==
    /\ last.op = "delete_book" /\ last.kind = "deleted"
    /\ authors # {}
    /\ \E b \in books : b.author_id \in Ids(authors) /\ b.id > 1

\* the step stored exactly one new row in one table and reported success, or
\* reported an error and changed neither table
OneRowOrNothing ==
    \/ /\ last'.kind = "success"
       /\ \/ books' = books /\ Cardinality(authors') = Cardinality(authors) + 1
             /\ authors \subseteq authors'
          \/ authors' = authors /\ Cardinality(books') = Cardinality(books) + 1
             /\ books \subseteq books'
    \/ /\ last'.kind \in ErrorKinds
       /\ authors' = authors /\ books' = books

\* C8: every add-author and add-book request stores exactly one new record
\* and reports success, or reports an error and leaves both tables as they
\* were, for every failure cause, a persistence error included.  (The steps
\* that leave last.op at add_author or add_book are those two handlers'.)
C8_CommitOrRollback ==
    [][ last'.op \in {"add_author", "add_book"} => OneRowOrNothing ]_vars

\* a commit has just failed on a store that holds an author and a book
C8_Witness ==
    /\ last.op = "add_book" /\ last.kind = "persistence_error"
    /\ authors # {} /\ books # {}

\* the title contains the term, letter case ignored
RECURSIVE ContainsText(_, _)
ContainsText(text, term) ==
    \/ (Len(term) <= Len(text) /\ SubSeq(text, 1, Len(term)) = term)
    \/ (text # << >> /\ ContainsText(Tail(text), term))

Rows(f) == {f[i] : i \in 1..Len(f)}

\* C9: for every term and sort key the listing holds exactly the stored books
\* whose title contains the term, case ignored (all of them for the empty
\* term); 'title' orders them by title, 'author' by their author's name.
\* Stated for the stores in which every book's author is stored.
C9_ListingIsTheMatchingBooks ==
    (\A b \in books : b.author_id \in Ids(authors)) =>
    \A q \in SearchTerms, k \in SortKeys : \A f \in home(q, k) :
        /\ Rows(f) = {b \in books : ContainsText(LowerSeq(b.title), LowerSeq(q))}
        /\ Len(f) = Cardinality(Rows(f))
        /\ k = "title" =>
              \A i \in 1..(Len(f) - 1) : TextLE(f[i].title, f[i + 1].title)
        /\ k = "author" =>
              \A i \in 1..(Len(f) - 1) :
                  TextLE(AuthorOf(f[i]).name, AuthorOf(f[i + 1]).name)

IsbnLetters == DecimalDigits \cup {"X", "x"}
IsIsbnLetter(c) == c \in IsbnLetters

\* C10: the ISBN check of a non-empty text succeeds exactly when the text with
\* only its decimal digits and X kept has length 10 or 13, and fails naming
\* that length otherwise; so every stored ISBN is absent or 10 or 13
\* characters, all decimal digits or X.  (validate_isbn as add_book runs it.)
C10_IsbnShape ==
    [][ /\ \A form \in BookForms :
              ( /\ last'.op = "add_book"
                /\ form[1] # << >>
                /\ AddBook(form[1], form[2], form[3], form[4], FALSE) )
              => LET n == SelectSeq(form[1], IsIsbnLetter) IN
                 IF Len(n) \in {10, 13} THEN last'.kind # "isbn_length"
                 ELSE last'.kind = "isbn_length" /\ last'.arg = Len(n)
        /\ \A b \in books' :
              b.isbn # None =>
                  /\ Len(b.isbn[1]) \in {10, 13}
                  /\ \A i \in 1..Len(b.isbn[1]) : b.isbn[1][i] \in IsbnLetters
      ]_vars

====
